---- MODULE Spec2Model ----
(***************************************************************************)
(* Model of the versioned slot-delta query of the storage gateway          *)
(* (src/src/storage/postgres/contract.rs): PostgresGateway::get_slots_delta *)
(* and version_to_ts, over the tables block, contract and contract_storage. *)
(*                                                                          *)
(* The store is populated by the writers (the fixtures the tests call);     *)
(* a call of get_slots_delta runs inside one store transaction, as in the   *)
(* tests (begin_test_transaction), so no write lands between its store      *)
(* calls.  The wall clock read by version_to_ts and the failure of a store  *)
(* call are inputs of the call.                                             *)
(***************************************************************************)
EXTENDS Integers, Sequences, FiniteSets, TLC

(***************************************************************************)
(* Bounds of the model.                                                     *)
(***************************************************************************)
\* timestamps are 0..MaxTs
MaxTs == 2
\* rows the contract_storage table may hold
MaxRows == 2

(***************************************************************************)
(* Program constants.                                                       *)
(***************************************************************************)
\* v.len() != 20: the byte length of a contract address (H160)
AddressLen == 20
\* raw_key.len() != 32, val.len() != 32: the byte length of a U256
U256Len == 32

(***************************************************************************)
(* Byte strings (Vec<u8>).  A byte string is kept as its number of leading  *)
(* zero bytes and the bytes that follow them.                               *)
(***************************************************************************)
Bytes(z, t) == [zeros |-> z, tail |-> t]

ByteLen(b) == b.zeros + Len(b.tail)

Expand(b) == [i \in 1..ByteLen(b) |-> IF i <= b.zeros THEN 0 ELSE b.tail[i - b.zeros]]

\* bytea comparison of the store: lexicographic, a proper prefix first
BytesLess(a, b) ==
    LET x == Expand(a)
        y == Expand(b)
        n == IF Len(x) < Len(y) THEN Len(x) ELSE Len(y)
        D == {i \in 1..n : x[i] # y[i]}
    IN  IF D = {} THEN Len(x) < Len(y)
        ELSE LET i == CHOOSE j \in D : \A k \in D : j <= k IN x[i] < y[i]

RECURSIVE FoldBigEndian(_, _)
FoldBigEndian(t, acc) ==
    IF t = <<>> THEN acc ELSE FoldBigEndian(Tail(t), acc * 256 + Head(t))

\* U256::from_big_endian: leading zero bytes add nothing to the sum
from_big_endian(b) == FoldBigEndian(b.tail, 0)

\* H160::from_slice: the 20 bytes, copied
H160_from_slice(v) == [h160 |-> Expand(v)]

NULL == [null |-> TRUE]

(***************************************************************************)
(* The values the writers and the callers draw from.                        *)
(***************************************************************************)
Ts == 0..MaxTs

Chains == {"ethereum", "starknet"}

\* 32-byte slot keys 0 and 1, and a 31-byte key
K0 == Bytes(32, <<>>)
K1 == Bytes(31, <<1>>)
KShort == Bytes(30, <<1>>)
SlotKeys == {K0, K1, KShort}

\* the 32-byte value 256, and a 33-byte value
V256 == Bytes(30, <<1, 0>>)
VLong == Bytes(32, <<1>>)
SlotValues == {NULL, V256, VLong}

\* 20-byte addresses, and a 19-byte address
A1 == Bytes(19, <<1>>)
A2 == Bytes(19, <<2>>)
AShort == Bytes(18, <<3>>)

ContractIds == {1, 2}

H1 == "0xb1"

BlockCandidates == {[chain |-> "ethereum", number |-> 7, hash |-> H1, ts |-> 1]}

ContractCandidates ==
    { [id |-> 2, chain_id |-> 1, address |-> A2],
      [id |-> 2, chain_id |-> 2, address |-> A1],
      [id |-> 2, chain_id |-> 1, address |-> AShort] }

\* Option<BlockOrTimestamp>
None == [tag |-> "None"]
Timestamp(t) == [tag |-> "Timestamp", ts |-> t]
BlockHash(h) == [tag |-> "Hash", hash |-> h]
BlockNumber(c, n) == [tag |-> "Number", chain |-> c, no |-> n]

Versions ==
    {None} \cup {Timestamp(t) : t \in Ts}
           \cup {BlockHash(H1), BlockNumber("ethereum", 7)}

StoreCalls == {"start_version", "target_version", "changed_values", "contract_addresses"}

VARIABLES
    block,              \* table block
    contract,           \* table contract
    contract_storage,   \* table contract_storage
    pc,                 \* "idle", or "done" once get_slots_delta has returned
    chain,              \* the call's arguments
    start_version,
    target_version,
    start_version_ts,   \* the call's locals
    target_version_ts,
    changed_values,
    contract_addresses,
    result,             \* what the call returned
    io_error,           \* the store call that failed, "none" if none did
    entity,             \* the domain entity handed to to_storage
    context,            \* the foreign keys and context values of the mapping
    orm_rows,           \* the rows to_storage built, or those handed to from_storage
    loaded              \* what from_storage returned

vars == <<block, contract, contract_storage, pc, chain, start_version, target_version,
          start_version_ts, target_version_ts, changed_values, contract_addresses,
          result, io_error, entity, context, orm_rows, loaded>>

mapping == <<entity, context, orm_rows, loaded>>

store == <<block, contract, contract_storage>>

call == <<chain, start_version, target_version, start_version_ts, target_version_ts,
          changed_values, contract_addresses, result, io_error>>

\* a local that is not assigned yet is <<>>, an assigned one <<v>>
Unset == <<>>

Set(v) == <<v>>

IsSet(x) == x # <<>>

Val(x) == x[1]

\* between calls there are no arguments and no result
NoChain == "none"

NoVersion == [tag |-> "Unset"]

NoResult == [kind |-> "Unset"]

\* between mappings there is no entity and no context
NoEntity == [type |-> "None"]

NoContext == [of |-> "None"]

EmptyMap == [x \in {} |-> x]

MapInsert(m, k, v) == [x \in (DOMAIN m) \cup {k} |-> IF x = k THEN v ELSE m[x]]

Ok(v) == [kind |-> "Ok", value |-> v]

Err(k, w) == [kind |-> k, what |-> w]

(***************************************************************************)
(* The store's side of the calls.                                           *)
(***************************************************************************)
\* self.get_chain_id(chain): the id of the chain's row in table chain
get_chain_id(ch) == IF ch = "ethereum" THEN 1 ELSE 2

\* orm::Block::by_hash: the block rows with that hash
Block_by_hash(h) == {b \in block : b.hash = h}

\* orm::Block::by_number: the block rows of that chain with that number
Block_by_number(ch, no) == {b \in block : b.chain = ch /\ b.number = no}

\* StorageError::from_diesel: no row is NotFound, any other failure is the store's
from_diesel(err) ==
    IF err = "NotFound" THEN Err("NotFound", "Block") ELSE Err("StoreFailure", err)

(***************************************************************************)
(* version_to_ts.  clock is what Utc::now() reads; fails says that the      *)
(* store call, if one is made, fails with an I/O error.                     *)
(***************************************************************************)
IsBlock(version) == version.tag \in {"Hash", "Number"}

first_row(rows, fails) ==
    IF fails THEN from_diesel("io")
    ELSE IF rows = {} THEN from_diesel("NotFound")
    ELSE Ok((CHOOSE b \in rows : TRUE).ts)

\* mutant: a block that is not stored resolves to now
version_to_ts_or_now(version, clock, fails) ==
    LET found == CASE version.tag = "Hash" -> Block_by_hash(version.hash)
                   [] version.tag = "Number" -> Block_by_number(version.chain, version.no)
                   [] OTHER -> {}
    IN  IF IsBlock(version) /\ (fails \/ found # {}) THEN first_row(found, fails)
        ELSE IF version.tag = "Timestamp" THEN Ok(version.ts)
        ELSE Ok(clock)

version_to_ts(version, clock, fails) ==
    CASE version.tag = "Hash" -> first_row(Block_by_hash(version.hash), fails)
      [] version.tag = "Number" ->
            first_row(Block_by_number(version.chain, version.no), fails)
      [] version.tag = "Timestamp" -> Ok(version.ts)
      [] version.tag = "None" -> Ok(clock)

(***************************************************************************)
(* The range queries of get_slots_delta.                                    *)
(***************************************************************************)
\* mutant: the join without the filter on the chain
joined_any_chain(chain_id) ==
    {r \in contract_storage : \E c \in contract : c.id = r.contract_id}

\* contract_storage INNER JOIN (contract INNER JOIN chain), chain::id = chain_id
joined(chain_id) ==
    {r \in contract_storage :
        \E c \in contract :
            /\ c.id = r.contract_id
            /\ c.chain_id \in {get_chain_id(ch) : ch \in Chains}
            /\ c.chain_id = chain_id}

\* mutant: valid_from.ge(lo) in place of valid_from.gt(lo)
in_range_closed(rows, lo, hi) == {r \in rows : r.valid_from >= lo /\ r.valid_from <= hi}

\* mutant: the range without its upper end
in_range_unbounded(rows, lo, hi) == {r \in rows : r.valid_from > lo}

\* filter valid_from.gt(lo), filter valid_from.le(hi)
in_range(rows, lo, hi) == {r \in rows : r.valid_from > lo /\ r.valid_from <= hi}

SameGroup(a, b) == a.contract_id = b.contract_id /\ a.slot = b.slot

GroupBefore(a, b) ==
    \/ a.contract_id < b.contract_id
    \/ a.contract_id = b.contract_id /\ BytesLess(a.slot, b.slot)

\* mutant: the forward order_by without the .desc() on valid_from and ordinal
forward_order_ascending(a, b) ==
    \/ GroupBefore(a, b)
    \/ /\ SameGroup(a, b)
       /\ \/ a.valid_from < b.valid_from
          \/ a.valid_from = b.valid_from /\ a.ordinal < b.ordinal

\* order_by (contract::id, slot, valid_from.desc(), ordinal.desc())
forward_order(a, b) ==
    \/ GroupBefore(a, b)
    \/ /\ SameGroup(a, b)
       /\ \/ a.valid_from > b.valid_from
          \/ a.valid_from = b.valid_from /\ a.ordinal > b.ordinal

\* order_by (contract::id.asc(), slot.asc(), valid_from.asc(), ordinal.asc())
backward_order(a, b) ==
    \/ GroupBefore(a, b)
    \/ /\ SameGroup(a, b)
       /\ \/ a.valid_from < b.valid_from
          \/ a.valid_from = b.valid_from /\ a.ordinal < b.ordinal

Before(a, b, forward) == IF forward THEN forward_order(a, b) ELSE backward_order(a, b)

\* the rows in the order of the order_by; rows that tie come in either order
RECURSIVE order_by(_, _)
order_by(rows, forward) ==
    IF rows = {} THEN <<>>
    ELSE LET r == CHOOSE x \in rows : \A y \in rows : ~Before(y, x, forward)
         IN  <<r>> \o order_by(rows \ {r}, forward)

\* distinct_on (contract::id, slot): the first row of each group of the ordered rows
RECURSIVE distinct_on(_)
distinct_on(rows) ==
    IF Len(rows) <= 1 THEN rows
    ELSE LET rest == distinct_on(Tail(rows))
         IN  IF SameGroup(rows[1], rows[2]) THEN <<rows[1]>> \o Tail(rest)
             ELSE <<rows[1]>> \o rest

\* going forward: select (contract::id, slot, value)
forward_changed_values(chain_id, start_ts, target_ts) ==
    LET rows == distinct_on(order_by(in_range(joined(chain_id), start_ts, target_ts), TRUE))
    IN  [i \in 1..Len(rows) |-> <<rows[i].contract_id, rows[i].slot, rows[i].value>>]

\* mutant: the backward query selecting the value column
backward_changed_values_value(chain_id, start_ts, target_ts) ==
    LET rows == distinct_on(order_by(in_range(joined(chain_id), target_ts, start_ts), FALSE))
    IN  [i \in 1..Len(rows) |-> <<rows[i].contract_id, rows[i].slot, rows[i].value>>]

\* mutant: the backward query with valid_from.ge(target_ts)
backward_changed_values_closed(chain_id, start_ts, target_ts) ==
    LET rows == distinct_on(order_by(in_range_closed(joined(chain_id), target_ts, start_ts),
                                     FALSE))
    IN  [i \in 1..Len(rows) |->
            <<rows[i].contract_id, rows[i].slot, rows[i].previous_value>>]

\* going backwards: select (contract::id, slot, previous_value)
backward_changed_values(chain_id, start_ts, target_ts) ==
    LET rows == distinct_on(order_by(in_range(joined(chain_id), target_ts, start_ts), FALSE))
    IN  [i \in 1..Len(rows) |->
            <<rows[i].contract_id, rows[i].slot, rows[i].previous_value>>]

\* if start_version_ts <= target_version_ts { forward } else { backwards }
query_changed_values(chain_id, start_ts, target_ts) ==
    IF start_ts <= target_ts THEN forward_changed_values(chain_id, start_ts, target_ts)
    ELSE backward_changed_values(chain_id, start_ts, target_ts)

(***************************************************************************)
(* The address lookup and the decoding loop of get_slots_delta.             *)
(***************************************************************************)
SeqRange(s) == {s[i] : i \in 1..Len(s)}

\* mutant: the addresses taken without the check of their length
lookup_contract_addresses_unchecked(cvs) ==
    LET ids == {cv[1] : cv \in SeqRange(cvs)}
        rows == {c \in contract : c.id \in ids}
    IN  Ok([k \in {c.id : c \in rows} |->
                H160_from_slice((CHOOSE c \in rows : c.id = k).address)])

\* contract rows with id.eq_any(ids), each address checked to be 20 bytes long
lookup_contract_addresses(cvs) ==
    LET ids == {cv[1] : cv \in SeqRange(cvs)}
        rows == {c \in contract : c.id \in ids}
    IN  IF \E c \in rows : ByteLen(c.address) # AddressLen
        THEN Err("DecodeError", "contract address")
        ELSE Ok([k \in {c.id : c \in rows} |->
                    H160_from_slice((CHOOSE c \in rows : c.id = k).address)])

\* mutant: the loop leaving out the rows whose value is None
insert_slot_skip_null(res, addresses, cv) ==
    LET cid == cv[1]
        raw_key == cv[2]
        raw_val == cv[3]
    IN  IF cid \notin DOMAIN addresses THEN Err("DecodeError", "contract id")
        ELSE IF ByteLen(raw_key) # U256Len THEN Err("DecodeError", "slot key")
        ELSE IF raw_val # NULL /\ ByteLen(raw_val) # U256Len
             THEN Err("DecodeError", "slot value")
        ELSE IF raw_val = NULL THEN Ok(res)
        ELSE LET v == from_big_endian(raw_val)
                 k == from_big_endian(raw_key)
                 a == addresses[cid]
             IN  IF a \in DOMAIN res
                 THEN Ok(MapInsert(res, a, MapInsert(res[a], k, v)))
                 ELSE Ok(MapInsert(res, a, MapInsert(EmptyMap, k, v)))

\* mutant: the loop without the check of the value's length
insert_slot_unchecked_value(res, addresses, cv) ==
    LET cid == cv[1]
        raw_key == cv[2]
        raw_val == cv[3]
    IN  IF cid \notin DOMAIN addresses THEN Err("DecodeError", "contract id")
        ELSE IF ByteLen(raw_key) # U256Len THEN Err("DecodeError", "slot key")
        ELSE LET v == IF raw_val # NULL THEN from_big_endian(raw_val) ELSE 0
                 k == from_big_endian(raw_key)
                 a == addresses[cid]
             IN  IF a \in DOMAIN res
                 THEN Ok(MapInsert(res, a, MapInsert(res[a], k, v)))
                 ELSE Ok(MapInsert(res, a, MapInsert(EmptyMap, k, v)))

\* one turn of the loop: Err, or the result with the entry inserted
insert_slot(res, addresses, cv) ==
    LET cid == cv[1]
        raw_key == cv[2]
        raw_val == cv[3]
    IN  IF cid \notin DOMAIN addresses THEN Err("DecodeError", "contract id")
        ELSE IF ByteLen(raw_key) # U256Len THEN Err("DecodeError", "slot key")
        ELSE IF raw_val # NULL /\ ByteLen(raw_val) # U256Len
             THEN Err("DecodeError", "slot value")
        ELSE LET v == IF raw_val # NULL THEN from_big_endian(raw_val) ELSE 0
                 k == from_big_endian(raw_key)
                 a == addresses[cid]
             IN  IF a \in DOMAIN res
                 THEN Ok(MapInsert(res, a, MapInsert(res[a], k, v)))
                 ELSE Ok(MapInsert(res, a, MapInsert(EmptyMap, k, v)))

\* for (cid, raw_key, raw_val) in changed_values: the first Err ends the call
RECURSIVE decode_slots(_, _, _)
decode_slots(res, addresses, cvs) ==
    IF cvs = <<>> THEN Ok(res)
    ELSE LET step == insert_slot(res, addresses, Head(cvs))
         IN  IF step.kind # "Ok" THEN step
             ELSE decode_slots(step.value, addresses, Tail(cvs))

(***************************************************************************)
(* get_slots_delta: the locals it assigns and what it returns.  fail names  *)
(* the store call that fails, if it is made ("none": none fails).           *)
(***************************************************************************)
Locals(s_ts, t_ts, cvs, addrs, res, io) ==
    [start_version_ts |-> s_ts, target_version_ts |-> t_ts, changed_values |-> cvs,
     contract_addresses |-> addrs, result |-> res, io_error |-> io]

\* the loop over changed_values and the return
with_contract_addresses(s_ts, t_ts, cvs, addrs) ==
    IF addrs.kind # "Ok"
    THEN Locals(Set(s_ts), Set(t_ts), Set(cvs), Unset, addrs, "none")
    ELSE Locals(Set(s_ts), Set(t_ts), Set(cvs), Set(addrs.value),
                decode_slots(EmptyMap, addrs.value, cvs), "none")

\* let contract_addresses = ... .get_results(conn).await.map_err(StorageError::from)?
with_changed_values(s_ts, t_ts, cvs, fail) ==
    IF fail = "contract_addresses"
    THEN Locals(Set(s_ts), Set(t_ts), Set(cvs), Unset, Err("StoreFailure", "io"),
                "contract_addresses")
    ELSE with_contract_addresses(s_ts, t_ts, cvs, lookup_contract_addresses(cvs))

\* let changed_values = ... .get_results(conn).await.unwrap()
with_target_version_ts(chain_id, s_ts, t, fail) ==
    IF t.kind # "Ok"
    THEN Locals(Set(s_ts), Unset, Unset, Unset, t,
                IF t.kind = "StoreFailure" THEN "target_version" ELSE "none")
    ELSE IF fail = "changed_values"
    THEN Locals(Set(s_ts), Set(t.value), Unset, Unset, Err("Panic", "unwrap"),
                "changed_values")
    ELSE with_changed_values(s_ts, t.value,
                             query_changed_values(chain_id, s_ts, t.value), fail)

\* let target_version_ts = version_to_ts(&target_version, conn).await?
with_start_version_ts(chain_id, s, tv, clock_t, fail) ==
    IF s.kind # "Ok"
    THEN Locals(Unset, Unset, Unset, Unset, s,
                IF s.kind = "StoreFailure" THEN "start_version" ELSE "none")
    ELSE with_target_version_ts(chain_id, s.value,
                                version_to_ts(tv, clock_t, fail = "target_version"), fail)

\* let start_version_ts = version_to_ts(&start_version, conn).await?
get_slots_delta(ch, sv, tv, clock_s, clock_t, fail) ==
    with_start_version_ts(get_chain_id(ch),
                          version_to_ts(sv, clock_s, fail = "start_version"),
                          tv, clock_t, fail)

(***************************************************************************)
(* The writers.                                                             *)
(***************************************************************************)
SlotRows(cid, slot) == {r \in contract_storage : r.contract_id = cid /\ r.slot = slot}

RowBefore(a, b) ==
    \/ a.valid_from < b.valid_from
    \/ a.valid_from = b.valid_from /\ a.ordinal < b.ordinal

\* the row of the slot that no other row of the slot follows
LatestRow(rows) == CHOOSE r \in rows : \A o \in rows : ~RowBefore(r, o)

\* fixtures::insert_blocks
InsertBlock(b) ==
    /\ pc = "idle"
    /\ b \notin block
    /\ block' = block \cup {b}
    /\ UNCHANGED <<contract, contract_storage, pc, call, mapping>>

\* fixtures::insert_contract
InsertContract(c) ==
    /\ pc = "idle"
    /\ \A o \in contract : o.id # c.id
    /\ contract' = contract \cup {c}
    /\ UNCHANGED <<block, contract_storage, pc, call, mapping>>

\* fixtures::insert_slots: a change of one slot, appended to the slot's history
InsertSlot(cid, slot, value, ts) ==
    LET rows == SlotRows(cid, slot)
    IN  /\ pc = "idle"
        /\ Cardinality(contract_storage) < MaxRows
        /\ \A r \in rows : r.valid_from <= ts
        /\ contract_storage' = contract_storage \cup
              {[contract_id |-> cid, slot |-> slot, value |-> value,
                previous_value |-> IF rows = {} THEN NULL ELSE LatestRow(rows).value,
                valid_from |-> ts,
                ordinal |-> Cardinality({r \in rows : r.valid_from = ts})]}
        /\ UNCHANGED <<block, contract, pc, call, mapping>>

(***************************************************************************)
(* The call.                                                                *)
(***************************************************************************)
\* a call of get_slots_delta, run to its return: r holds the locals it assigned and
\* what it returns
GetSlotsDelta(ch, sv, tv, r) ==
    /\ pc = "idle"
    /\ pc' = "done"
    /\ chain' = ch
    /\ start_version' = sv
    /\ target_version' = tv
    /\ start_version_ts' = r.start_version_ts
    /\ target_version_ts' = r.target_version_ts
    /\ changed_values' = r.changed_values
    /\ contract_addresses' = r.contract_addresses
    /\ result' = r.result
    /\ io_error' = r.io_error
    /\ UNCHANGED <<store, mapping>>

\* the caller takes the result; the transaction ends
Return ==
    /\ pc = "done"
    /\ pc' = "idle"
    /\ chain' = NoChain
    /\ start_version' = NoVersion
    /\ target_version' = NoVersion
    /\ start_version_ts' = Unset
    /\ target_version_ts' = Unset
    /\ changed_values' = Unset
    /\ contract_addresses' = Unset
    /\ result' = NoResult
    /\ io_error' = "none"
    /\ UNCHANGED <<store, mapping>>

Init ==
    /\ block = {}
    /\ contract = {[id |-> 1, chain_id |-> 1, address |-> A1]}
    /\ contract_storage = {}
    /\ pc = "idle"
    /\ chain = NoChain
    /\ start_version = NoVersion
    /\ target_version = NoVersion
    /\ start_version_ts = Unset
    /\ target_version_ts = Unset
    /\ changed_values = Unset
    /\ contract_addresses = Unset
    /\ result = NoResult
    /\ io_error = "none"
    /\ entity = NoEntity
    /\ context = NoContext
    /\ orm_rows = <<>>
    /\ loaded = NoResult

WriteTimes == 1..MaxTs

\* what the two Utc::now() of a call may read: the clock does not go back, and a
\* version that is not None reads no clock
ClockReadings(sv, tv) ==
    {c \in Ts \X Ts :
        /\ c[1] <= c[2]
        /\ sv # None => c[1] = 0
        /\ tv # None => c[2] = MaxTs}

\* the store calls a call makes, one of which may fail
FailPoints(sv, tv) ==
    {"none", "changed_values", "contract_addresses"}
        \cup (IF IsBlock(sv) THEN {"start_version"} ELSE {})
        \cup (IF IsBlock(tv) THEN {"target_version"} ELSE {})

Writes ==
    \/ \E b \in BlockCandidates : InsertBlock(b)
    \/ \E c \in ContractCandidates : InsertContract(c)
    \/ \E cid \in ContractIds, slot \in SlotKeys, value \in SlotValues, ts \in WriteTimes :
          InsertSlot(cid, slot, value, ts)

\* the store answers every call
Next ==
    \/ Writes
    \/ \E ch \in Chains, sv \in Versions, tv \in Versions :
          \E clock \in ClockReadings(sv, tv) :
              GetSlotsDelta(ch, sv, tv,
                            get_slots_delta(ch, sv, tv, clock[1], clock[2], "none"))
    \/ Return

Spec == Init /\ [][Next]_vars

\* one store call of a call may fail; the slots are those of contract 1
NextFault ==
    \/ \E b \in BlockCandidates : InsertBlock(b)
    \/ \E slot \in SlotKeys, value \in SlotValues, ts \in WriteTimes :
          InsertSlot(1, slot, value, ts)
    \/ \E ch \in Chains, sv \in Versions, tv \in Versions :
          \E clock \in ClockReadings(sv, tv), fail \in FailPoints(sv, tv) :
              GetSlotsDelta(ch, sv, tv,
                            get_slots_delta(ch, sv, tv, clock[1], clock[2], fail))
    \/ Return

SpecFault == Init /\ [][NextFault]_vars

(***************************************************************************)
(* The call, store call by store call, with writers in between: outside a   *)
(* transaction the store runs each statement of the call on the rows it     *)
(* holds at that moment.                                                    *)
(***************************************************************************)
\* let start_version_ts = version_to_ts(&start_version, conn).await?
ResolveStart(ch, sv, tv, s) ==
    /\ pc = "idle"
    /\ chain' = ch
    /\ start_version' = sv
    /\ target_version' = tv
    /\ start_version_ts' = IF s.kind = "Ok" THEN Set(s.value) ELSE Unset
    /\ result' = IF s.kind = "Ok" THEN NoResult ELSE s
    /\ pc' = IF s.kind = "Ok" THEN "start_resolved" ELSE "done"
    /\ UNCHANGED <<target_version_ts, changed_values, contract_addresses, io_error, store,
                   mapping>>

\* what the second Utc::now() may read: not less than the first one read
LaterClockReadings ==
    {c \in Ts :
        /\ target_version # None => c = MaxTs
        /\ (start_version = None /\ target_version = None) => c >= Val(start_version_ts)}

\* let target_version_ts = version_to_ts(&target_version, conn).await?
ResolveTarget(clock, t) ==
    /\ pc = "start_resolved"
    /\ clock \in LaterClockReadings
    /\ target_version_ts' = IF t.kind = "Ok" THEN Set(t.value) ELSE Unset
    /\ result' = IF t.kind = "Ok" THEN NoResult ELSE t
    /\ pc' = IF t.kind = "Ok" THEN "resolved" ELSE "done"
    /\ UNCHANGED <<chain, start_version, target_version, start_version_ts, changed_values,
                   contract_addresses, io_error, store, mapping>>

\* let changed_values = ... .get_results(conn).await
QueryChangedValues ==
    /\ pc = "resolved"
    /\ changed_values' = Set(query_changed_values(get_chain_id(chain), Val(start_version_ts),
                                                  Val(target_version_ts)))
    /\ pc' = "queried"
    /\ UNCHANGED <<chain, start_version, target_version, start_version_ts,
                   target_version_ts, contract_addresses, result, io_error, store, mapping>>

\* let contract_addresses = ... .get_results(conn).await, and the loop that follows it
LookupAndDecode(r) ==
    /\ pc = "queried"
    /\ contract_addresses' = r.contract_addresses
    /\ result' = r.result
    /\ pc' = "done"
    /\ UNCHANGED <<chain, start_version, target_version, start_version_ts,
                   target_version_ts, changed_values, io_error, store, mapping>>

\* a writer that appends a change of a slot of a stored contract while a call runs
ConcurrentInsertSlot(cid, slot, value, ts) ==
    /\ pc \in {"start_resolved", "resolved", "queried"}
    /\ \E c \in contract : c.id = cid
    /\ Cardinality(contract_storage) < MaxRows
    /\ \A r \in SlotRows(cid, slot) : r.valid_from <= ts
    /\ contract_storage' = contract_storage \cup
          {[contract_id |-> cid, slot |-> slot, value |-> value,
            previous_value |-> IF SlotRows(cid, slot) = {} THEN NULL
                               ELSE LatestRow(SlotRows(cid, slot)).value,
            valid_from |-> ts,
            ordinal |-> Cardinality({r \in SlotRows(cid, slot) : r.valid_from = ts})]}
    /\ UNCHANGED <<block, contract, pc, call, mapping>>

NextRace ==
    \/ \E b \in BlockCandidates : InsertBlock(b)
    \/ \E slot \in SlotKeys, value \in SlotValues, ts \in WriteTimes :
          InsertSlot(1, slot, value, ts)
    \/ \E slot \in SlotKeys, value \in SlotValues, ts \in WriteTimes :
          ConcurrentInsertSlot(1, slot, value, ts)
    \/ \E sv \in Versions, tv \in Versions :
          \E clock \in {c \in Ts : sv # None => c = 0} :
              ResolveStart("ethereum", sv, tv, version_to_ts(sv, clock, FALSE))
    \/ \E clock \in Ts : ResolveTarget(clock, version_to_ts(target_version, clock, FALSE))
    \/ QueryChangedValues
    \/ LookupAndDecode(with_changed_values(Val(start_version_ts), Val(target_version_ts),
                                           Val(changed_values), "none"))
    \/ Return

SpecRace == Init /\ [][NextRace]_vars

(***************************************************************************)
(* The mapping contracts (tycho-indexer/src/extractor/evm/storage.rs): the  *)
(* from_storage / to_storage pairs between domain entities and rows.        *)
(*                                                                          *)
(* Fixed-width values.  H160 and H256 hold exactly 20 and 32 bytes; an     *)
(* Address, a hash or a Balance of the store is a byte string of any length.*)
(***************************************************************************)
H256Len == 32

RECURSIVE LeadingZeros(_)
LeadingZeros(s) == IF s = <<>> \/ Head(s) # 0 THEN 0 ELSE 1 + LeadingZeros(Tail(s))

\* the byte string of a sequence of bytes
ToBytes(s) == Bytes(LeadingZeros(s), SubSeq(s, LeadingZeros(s) + 1, Len(s)))

H160(b) == [h160 |-> Expand(b)]

H256(b) == [h256 |-> Expand(b)]

\* impl From<H160> for Bytes, impl From<H256> for Bytes: the bytes, copied
H160_into(h) == ToBytes(h.h160)

H256_into(h) == ToBytes(h.h256)

\* H160::try_decode: the 20 bytes, or an error for any other length
H160_try_decode(b, what) ==
    IF ByteLen(b) = AddressLen THEN Ok(H160(b)) ELSE Err("DecodeError", what)

\* H256::try_decode: the 32 bytes, or an error for any other length
H256_try_decode(b, what) ==
    IF ByteLen(b) = H256Len THEN Ok(H256(b)) ELSE Err("DecodeError", what)

\* U256::try_decode: the big-endian number of the 32 bytes
U256_try_decode(b, what) ==
    IF ByteLen(b) = U256Len THEN Ok(from_big_endian(b)) ELSE Err("DecodeError", what)

\* impl From<U256> for Bytes: the 32 big-endian bytes of a number below 2^16
U256_into(n) ==
    IF n = 0 THEN Bytes(32, <<>>)
    ELSE IF n < 256 THEN Bytes(31, <<n>>)
    ELSE Bytes(30, <<n \div 256, n % 256>>)

\* pad_and_parse_h160: a string shorter than 20 bytes is padded on the left
pad_and_parse_h160(b) ==
    IF ByteLen(b) > AddressLen THEN Err("DecodeError", "address")
    ELSE Ok(H160(Bytes(b.zeros + (AddressLen - ByteLen(b)), b.tail)))

\* convert_addresses_to_h160: every address of the slice, or the first error
RECURSIVE convert_addresses_to_h160(_)
convert_addresses_to_h160(addresses) ==
    IF addresses = <<>> THEN Ok(<<>>)
    ELSE LET h == H160_try_decode(Head(addresses), "address")
             rest == convert_addresses_to_h160(Tail(addresses))
         IN  IF h.kind # "Ok" THEN h
             ELSE IF rest.kind # "Ok" THEN rest
             ELSE Ok(<<h.value>> \o rest.value)

(***************************************************************************)
(* Integers of a width.  An unsigned integer is kept as its top bit and the *)
(* bits below it; a signed one as its sign bit and the bits below it.  The  *)
(* `as` casts between the two of one width keep every bit.                  *)
(***************************************************************************)
Unsigned(top, low) == [unsigned |-> TRUE, top |-> top, low |-> low]

Signed(sign, low) == [unsigned |-> FALSE, sign |-> sign, low |-> low]

\* self.number as i64, self.index as i64, self.decimals as i32, self.tax as i64
as_signed(n) == Signed(n.top, n.low)

\* val.number as u64, val.index as u64, val.decimals as u32, val.tax as u64
as_unsigned(i) == Unsigned(i.sign, i.low)

\* i64::to_string
to_string(id) == CASE id = 42 -> "42" [] id = 7 -> "7" [] OTHER -> "0"

(***************************************************************************)
(* The enums of the domain and those of the rows.                           *)
(***************************************************************************)
FinancialTypes ==
    {"FinancialType::Swap", "FinancialType::Psm", "FinancialType::Debt",
     "FinancialType::Leverage"}

ImplementationTypes == {"ImplementationType::Custom", "ImplementationType::Vm"}

TokenQualities ==
    {"TokenQuality::Normal", "TokenQuality::Rebase", "TokenQuality::Tax",
     "TokenQuality::Scam"}

OrmFinancialTypes ==
    {"orm::FinancialType::Swap", "orm::FinancialType::Psm", "orm::FinancialType::Debt",
     "orm::FinancialType::Leverage"}

OrmImplementationTypes == {"orm::ImplementationType::Custom", "orm::ImplementationType::Vm"}

OrmTokenQualities ==
    {"orm::TokenQuality::Normal", "orm::TokenQuality::Rebase", "orm::TokenQuality::Tax",
     "orm::TokenQuality::Scam"}

\* match self.financial_type { ... }
financial_type_to_storage(v) ==
    CASE v = "FinancialType::Swap" -> "orm::FinancialType::Swap"
      [] v = "FinancialType::Psm" -> "orm::FinancialType::Psm"
      [] v = "FinancialType::Debt" -> "orm::FinancialType::Debt"
      [] v = "FinancialType::Leverage" -> "orm::FinancialType::Leverage"

\* match val.financial_type { ... }
financial_type_from_storage(v) ==
    CASE v = "orm::FinancialType::Swap" -> "FinancialType::Swap"
      [] v = "orm::FinancialType::Psm" -> "FinancialType::Psm"
      [] v = "orm::FinancialType::Debt" -> "FinancialType::Debt"
      [] v = "orm::FinancialType::Leverage" -> "FinancialType::Leverage"

\* match self.implementation { ... }
implementation_to_storage(v) ==
    CASE v = "ImplementationType::Custom" -> "orm::ImplementationType::Custom"
      [] v = "ImplementationType::Vm" -> "orm::ImplementationType::Vm"

\* match val.implementation { ... }
implementation_from_storage(v) ==
    CASE v = "orm::ImplementationType::Custom" -> "ImplementationType::Custom"
      [] v = "orm::ImplementationType::Vm" -> "ImplementationType::Vm"

\* mutant: Tax stored as Scam
quality_to_storage_tax_as_scam(v) ==
    CASE v = "TokenQuality::Normal" -> "orm::TokenQuality::Normal"
      [] v = "TokenQuality::Rebase" -> "orm::TokenQuality::Rebase"
      [] v = "TokenQuality::Tax" -> "orm::TokenQuality::Scam"
      [] v = "TokenQuality::Scam" -> "orm::TokenQuality::Scam"

\* match self.quality { ... }
quality_to_storage(v) ==
    CASE v = "TokenQuality::Normal" -> "orm::TokenQuality::Normal"
      [] v = "TokenQuality::Rebase" -> "orm::TokenQuality::Rebase"
      [] v = "TokenQuality::Tax" -> "orm::TokenQuality::Tax"
      [] v = "TokenQuality::Scam" -> "orm::TokenQuality::Scam"

\* match val.quality { ... }
quality_from_storage(v) ==
    CASE v = "orm::TokenQuality::Normal" -> "TokenQuality::Normal"
      [] v = "orm::TokenQuality::Rebase" -> "TokenQuality::Rebase"
      [] v = "orm::TokenQuality::Tax" -> "TokenQuality::Tax"
      [] v = "orm::TokenQuality::Scam" -> "TokenQuality::Scam"

(***************************************************************************)
(* Option<T> is <<>> for None and <<v>> for Some(v).  A HashMap is a        *)
(* function; the order in which a HashMap is iterated is an input.          *)
(***************************************************************************)
\* the sequences that hold every element of S once
Orders(S) == {o \in [1..Cardinality(S) -> S] : \A a \in S : \E i \in DOMAIN o : o[i] = a}

\* the first Err of a sequence of results, or Ok
RECURSIVE FirstErr(_)
FirstErr(rs) ==
    IF rs = <<>> THEN Ok(TRUE)
    ELSE IF Head(rs).kind # "Ok" THEN Head(rs)
    ELSE FirstErr(Tail(rs))

(***************************************************************************)
(* StorableBlock for evm::Block                                             *)
(***************************************************************************)
Block_from_storage(val, ch) ==
    LET hash == H256_try_decode(val.hash, "block hash")
        parent_hash == H256_try_decode(val.parent_hash, "parent hash")
        err == FirstErr(<<hash, parent_hash>>)
    IN  IF err.kind # "Ok" THEN err
        ELSE Ok([type |-> "Block", number |-> as_unsigned(val.number), hash |-> hash.value,
                 parent_hash |-> parent_hash.value, chain |-> ch, ts |-> val.ts])

Block_to_storage(self, chain_id) ==
    [hash |-> H256_into(self.hash), parent_hash |-> H256_into(self.parent_hash),
     chain_id |-> chain_id, main |-> FALSE, number |-> as_signed(self.number),
     ts |-> self.ts]

(***************************************************************************)
(* StorableTransaction for evm::Transaction                                 *)
(***************************************************************************)
Transaction_from_storage(val, block_hash) ==
    LET to == IF ByteLen(val.to) # 0 THEN H160_try_decode(val.to, "tx receiver")
              ELSE Ok(Unset)
        hash == H256_try_decode(val.hash, "tx hash")
        bhash == H256_try_decode(block_hash, "tx block hash")
        from == H160_try_decode(val.from, "tx sender")
        err == FirstErr(<<to, hash, bhash, from>>)
    IN  IF err.kind # "Ok" THEN err
        ELSE Ok([type |-> "Transaction", hash |-> hash.value, block_hash |-> bhash.value,
                 from |-> from.value,
                 to |-> IF ByteLen(val.to) # 0 THEN Set(to.value) ELSE Unset,
                 index |-> as_unsigned(val.index)])

\* self.to.map(|v| v.into()).unwrap_or_default(): no receiver is the empty address
Transaction_to_storage(self, block_id) ==
    [hash |-> H256_into(self.hash), block_id |-> block_id, from |-> H160_into(self.from),
     to |-> IF IsSet(self.to) THEN H160_into(Val(self.to)) ELSE Bytes(0, <<>>),
     index |-> as_signed(self.index)]

(***************************************************************************)
(* StorableProtocolType for models::ProtocolType                            *)
(***************************************************************************)
ProtocolType_from_storage(val) ==
    Ok([type |-> "ProtocolType", name |-> val.name,
        financial_type |-> financial_type_from_storage(val.financial_type),
        attribute_schema |-> val.attribute_schema,
        implementation |-> implementation_from_storage(val.implementation)])

ProtocolType_to_storage(self) ==
    [name |-> self.name, implementation |-> implementation_to_storage(self.implementation),
     attribute_schema |-> self.attribute_schema,
     financial_type |-> financial_type_to_storage(self.financial_type)]

(***************************************************************************)
(* StorableComponentBalance for evm::ComponentBalance                       *)
(***************************************************************************)
\* mutant: the row built already closed at the block's timestamp
ComponentBalance_to_storage_closed(self, token_id, modify_tx, protocol_component_id, block_ts) ==
    [token_id |-> token_id, new_balance |-> self.balance,
     previous_value |-> U256_into(0), balance_float |-> self.balance_float,
     modify_tx |-> modify_tx, protocol_component_id |-> protocol_component_id,
     valid_from |-> block_ts, valid_to |-> Set(block_ts)]

ComponentBalance_to_storage(self, token_id, modify_tx, protocol_component_id, block_ts) ==
    [token_id |-> token_id, new_balance |-> self.balance,
     previous_value |-> U256_into(0), balance_float |-> self.balance_float,
     modify_tx |-> modify_tx, protocol_component_id |-> protocol_component_id,
     valid_from |-> block_ts, valid_to |-> Unset]

(***************************************************************************)
(* StorableContract for evm::Account                                        *)
(***************************************************************************)
Account_from_storage(val, ch, balance_modify_tx, code_modify_tx, creation_tx) ==
    LET address == H160_try_decode(val.account.address, "address")
        balance == U256_try_decode(val.balance.balance, "balance")
        code_hash == H256_try_decode(val.code.hash, "code hash")
        btx == H256_try_decode(balance_modify_tx, "tx hash")
        ctx == H256_try_decode(code_modify_tx, "tx hash")
        crtx == IF IsSet(creation_tx) THEN H256_try_decode(Val(creation_tx), "tx hash")
                ELSE Ok(Unset)
        err == FirstErr(<<address, balance, code_hash, btx, ctx, crtx>>)
    IN  IF err.kind # "Ok" THEN err
        ELSE Ok([type |-> "Account", chain |-> ch, address |-> address.value,
                 title |-> val.account.title, slots |-> EmptyMap,
                 balance |-> balance.value, code |-> val.code.code,
                 code_hash |-> code_hash.value, balance_modify_tx |-> btx.value,
                 code_modify_tx |-> ctx.value,
                 creation_tx |-> IF IsSet(creation_tx) THEN Set(crtx.value) ELSE Unset])

Account_to_storage(self, chain_id, creation_ts, tx_id) ==
    [title |-> self.title, address |-> H160_into(self.address), chain_id |-> chain_id,
     creation_tx |-> tx_id, created_at |-> Set(creation_ts), deleted_at |-> Unset,
     balance |-> U256_into(self.balance), code |-> self.code,
     code_hash |-> H256_into(self.code_hash)]

\* the orm::Contract the store hands back for a NewContract: the account, its balance
\* and its code
Contract_of(new) ==
    [account |-> [address |-> new.address, title |-> new.title],
     balance |-> [balance |-> new.balance],
     code |-> [code |-> new.code, hash |-> new.code_hash]]

(***************************************************************************)
(* ContractDelta for evm::AccountUpdate                                     *)
(***************************************************************************)
\* parse_u256_slot_entry: the key and the value as numbers, no value being zero
parse_u256_slot_entry(raw_key, raw_val) ==
    IF ByteLen(raw_key) # U256Len THEN Err("DecodeError", "slot key")
    ELSE IF raw_val # NULL /\ ByteLen(raw_val) # U256Len THEN Err("DecodeError", "slot value")
    ELSE Ok(<<from_big_endian(raw_key), IF raw_val # NULL THEN from_big_endian(raw_val) ELSE 0>>)

\* s.iter().map(parse_u256_slot_entry).collect::<Result<HashMap<U256, U256>, _>>()
parse_slots(s) ==
    LET parsed == [k \in DOMAIN s |-> parse_u256_slot_entry(k, s[k])]
    IN  IF \E k \in DOMAIN s : parsed[k].kind # "Ok"
        THEN parsed[CHOOSE k \in DOMAIN s : parsed[k].kind # "Ok"]
        ELSE Ok([n \in {parsed[k].value[1] : k \in DOMAIN s} |->
                    parsed[CHOOSE k \in DOMAIN s : parsed[k].value[1] = n].value[2]])

AccountUpdate_from_storage(ch, address, slots, balance, code, change) ==
    LET parsed == IF IsSet(slots) THEN parse_slots(Val(slots)) ELSE Ok(EmptyMap)
        addr == H160_try_decode(address, "address")
        bal == IF IsSet(balance) THEN U256_try_decode(Val(balance), "balance")
               ELSE Ok(Unset)
        err == FirstErr(<<parsed, addr, bal>>)
    IN  IF err.kind # "Ok" THEN err
        ELSE Ok([type |-> "AccountUpdate", address |-> addr.value, chain |-> ch,
                 slots |-> parsed.value,
                 balance |-> IF IsSet(balance) THEN Set(bal.value) ELSE Unset,
                 code |-> code, change |-> change])

\* self.balance.map(|b| b.into())
dirty_balance(self) == IF IsSet(self.balance) THEN Set(U256_into(Val(self.balance))) ELSE Unset

\* self.code.as_ref()
dirty_code(self) == self.code

(***************************************************************************)
(* StorableToken for evm::ERC20Token                                        *)
(***************************************************************************)
\* ContractId::new(chain, address)
ContractId(ch, address) == [chain |-> ch, address |-> address]

ERC20Token_from_storage(val, contract_id) ==
    LET address == pad_and_parse_h160(contract_id.address)
    IN  IF address.kind # "Ok" THEN address
        ELSE Ok([type |-> "ERC20Token", address |-> address.value, symbol |-> val.symbol,
                 decimals |-> as_unsigned(val.decimals), tax |-> as_unsigned(val.tax),
                 gas |-> [i \in DOMAIN val.gas |->
                             IF IsSet(val.gas[i]) THEN Set(as_unsigned(Val(val.gas[i])))
                             ELSE Unset],
                 chain |-> contract_id.chain,
                 quality |-> quality_from_storage(val.quality)])

ERC20Token_to_storage(self, contract_id) ==
    [account_id |-> contract_id, symbol |-> self.symbol,
     decimals |-> as_signed(self.decimals), tax |-> as_signed(self.tax),
     gas |-> [i \in DOMAIN self.gas |->
                 IF IsSet(self.gas[i]) THEN Set(as_signed(Val(self.gas[i]))) ELSE Unset],
     quality |-> quality_to_storage(self.quality)]

(***************************************************************************)
(* StorableProtocolComponent for evm::ProtocolComponent                     *)
(***************************************************************************)
\* Bytes as a JSON string: "0x" and the hex digits of the bytes
hex_string(b) == [json |-> "string", prefix |-> "0x", digits |-> Expand(b)]

\* serde_json::to_value(&self.static_attributes): an object of hex strings
to_value(attributes) ==
    Ok([json |-> "object", members |-> [k \in DOMAIN attributes |-> hex_string(attributes[k])]])

\* serde_json::from_value::<HashMap<String, Bytes>>: an object of hex strings, or an error
from_value(v) ==
    IF v.json # "object" THEN Err("serde", "not a map")
    ELSE IF \E k \in DOMAIN v.members :
                v.members[k].json # "string" \/ v.members[k].prefix # "0x"
    THEN Err("serde", "not hex")
    ELSE Ok([k \in DOMAIN v.members |-> ToBytes(v.members[k].digits)])

\* ChangeType::default()
ChangeType_default == "ChangeType::Update"

ProtocolComponent_from_storage(val, tokens, contract_ids, ch, protocol_system, transaction_hash) ==
    LET attrs == IF IsSet(val.attributes) THEN from_value(Val(val.attributes))
                 ELSE Ok(EmptyMap)
        token_addresses == convert_addresses_to_h160(tokens)
        contract_addrs == convert_addresses_to_h160(contract_ids)
    IN  IF attrs.kind # "Ok"
        THEN Err("DecodeError", "Failed to decode static attributes.")
        ELSE IF token_addresses.kind # "Ok" THEN token_addresses
        ELSE IF contract_addrs.kind # "Ok" THEN contract_addrs
        ELSE Ok([type |-> "ProtocolComponent", id |-> val.external_id,
                 protocol_system |-> protocol_system,
                 protocol_type_name |-> to_string(val.protocol_type_id),
                 chain |-> ch, tokens |-> token_addresses.value,
                 contract_ids |-> contract_addrs.value,
                 static_attributes |-> attrs.value, change |-> ChangeType_default,
                 creation_tx |-> transaction_hash, created_at |-> val.created_at])

ProtocolComponent_to_storage(self, chain_id, protocol_system_id, protocol_type_id, creation_tx, created_at) ==
    LET attributes == to_value(self.static_attributes)
    IN  IF attributes.kind # "Ok"
        THEN Err("DecodeError", "Could not convert attributes in StorableComponent")
        ELSE Ok([external_id |-> self.id, chain_id |-> chain_id,
                 protocol_type_id |-> protocol_type_id,
                 protocol_system_id |-> protocol_system_id, creation_tx |-> creation_tx,
                 created_at |-> created_at, attributes |-> Set(attributes.value)])

(***************************************************************************)
(* StorableProtocolState for evm::ProtocolState                             *)
(***************************************************************************)
\* for val in vals { attr.insert(val.attribute_name, val.attribute_value) }
RECURSIVE insert_attributes(_, _)
insert_attributes(attr, vals) ==
    IF vals = <<>> THEN attr
    ELSE insert_attributes(
             MapInsert(attr, Head(vals).attribute_name, Head(vals).attribute_value),
             Tail(vals))

ProtocolState_from_storage(vals, component_id, tx_hash) ==
    LET attr == insert_attributes(EmptyMap, vals)
        modify_tx == H256_try_decode(tx_hash, "tx hash")
    IN  IF modify_tx.kind # "Ok" THEN modify_tx
        ELSE Ok([type |-> "ProtocolState", component_id |-> component_id,
                 attributes |-> attr, modify_tx |-> modify_tx.value])

\* the row of one attribute: open, effective from the block's timestamp
NewProtocolState(protocol_component_id, name, value, tx_id, block_ts) ==
    [protocol_component_id |-> protocol_component_id, attribute_name |-> Set(name),
     attribute_value |-> Set(value), previous_value |-> Unset, modify_tx |-> tx_id,
     valid_from |-> block_ts, valid_to |-> Unset]

\* mutant: one row for all the attributes of the state
ProtocolState_to_storage_one_row(self, protocol_component_id, tx_id, block_ts, order) ==
    IF order = <<>> THEN <<>>
    ELSE <<NewProtocolState(protocol_component_id, order[1], self.attributes[order[1]],
                            tx_id, block_ts)>>

\* for (name, value) in &self.attributes, in the order the map is iterated
ProtocolState_to_storage(self, protocol_component_id, tx_id, block_ts, order) ==
    [i \in DOMAIN order |->
        NewProtocolState(protocol_component_id, order[i], self.attributes[order[i]],
                         tx_id, block_ts)]

\* the orm::ProtocolState the store hands back for a NewProtocolState
ProtocolState_of(new) ==
    [protocol_component_id |-> new.protocol_component_id,
     attribute_name |-> Val(new.attribute_name),
     attribute_value |-> Val(new.attribute_value),
     previous_value |-> new.previous_value, modify_tx |-> new.modify_tx,
     valid_from |-> new.valid_from, valid_to |-> new.valid_to]

(***************************************************************************)
(* StorableProtocolStateDelta for evm::ProtocolStateDelta                   *)
(***************************************************************************)
ProtocolStateDelta_from_storage(vals, component_id, deleted_attributes) ==
    Ok([type |-> "ProtocolStateDelta", component_id |-> component_id,
        updated_attributes |-> insert_attributes(EmptyMap, vals),
        deleted_attributes |-> SeqRange(deleted_attributes)])

\* mutant: a deleted attribute gets a row of the empty value
ProtocolStateDelta_to_storage_deleted(self, protocol_component_id, tx_id, block_ts, order) ==
    [i \in DOMAIN order |->
        NewProtocolState(protocol_component_id, order[i],
                         self.updated_attributes[order[i]], tx_id, block_ts)]
    \o (IF self.deleted_attributes = {} THEN <<>>
        ELSE <<NewProtocolState(protocol_component_id,
                                CHOOSE n \in self.deleted_attributes : TRUE,
                                Bytes(0, <<>>), tx_id, block_ts)>>)

\* for (name, value) in &self.updated_attributes, in the order the map is iterated
ProtocolStateDelta_to_storage(self, protocol_component_id, tx_id, block_ts, order) ==
    [i \in DOMAIN order |->
        NewProtocolState(protocol_component_id, order[i],
                         self.updated_attributes[order[i]], tx_id, block_ts)]

(***************************************************************************)
(* The entities and the context values the mappings are applied to.         *)
(***************************************************************************)
HA == Bytes(31, <<10>>)
HB == Bytes(31, <<11>>)

\* some bytes of code, of a balance, of an attribute
B1 == Bytes(0, <<186, 190>>)
B2 == Bytes(0, <<96>>)
NoBytes == Bytes(0, <<>>)

BlockEntities ==
    {[type |-> "Block", number |-> n, hash |-> H256(HA), parent_hash |-> H256(HB),
      chain |-> ch, ts |-> t] :
        n \in {Unsigned(0, 7), Unsigned(1, 0)}, ch \in Chains, t \in {0, 1}}

TransactionEntities ==
    {[type |-> "Transaction", hash |-> H256(HA), block_hash |-> H256(HB),
      from |-> H160(A1), to |-> to, index |-> i] :
        to \in {Unset, Set(H160(A2)), Set(H160(Bytes(20, <<>>)))},
        i \in {Unsigned(0, 3), Unsigned(1, 3)}}

AccountEntities ==
    {[type |-> "Account", chain |-> "ethereum", address |-> H160(A1), title |-> "acc",
      slots |-> s, balance |-> b, code |-> c, code_hash |-> H256(HA),
      balance_modify_tx |-> H256(HB), code_modify_tx |-> H256(HB), creation_tx |-> tx] :
        s \in {EmptyMap, MapInsert(EmptyMap, 1, 256)}, b \in {0, 256},
        c \in {NoBytes, B2}, tx \in {Unset, Set(H256(HA))}}

TokenEntities ==
    {[type |-> "ERC20Token", address |-> H160(A1), symbol |-> "WETH", decimals |-> d,
      tax |-> Unsigned(0, 0), gas |-> g, chain |-> "ethereum", quality |-> q] :
        d \in {Unsigned(0, 18), Unsigned(1, 18)},
        g \in {<<>>, <<Set(Unsigned(0, 64)), Unset>>}, q \in TokenQualities}

ProtocolTypeEntities ==
    {[type |-> "ProtocolType", name |-> "ambient_pool", financial_type |-> f,
      attribute_schema |-> Unset, implementation |-> i] :
        f \in FinancialTypes, i \in ImplementationTypes}

ProtocolComponentEntities ==
    {[type |-> "ProtocolComponent", id |-> "pool", protocol_system |-> "ambient",
      protocol_type_name |-> n, chain |-> "ethereum", tokens |-> <<H160(A1), H160(A1)>>,
      contract_ids |-> <<H160(A2)>>, static_attributes |-> a,
      change |-> ChangeType_default, creation_tx |-> H256(HA), created_at |-> 1] :
        n \in {"ambient_pool", "42"},
        a \in {EmptyMap, MapInsert(EmptyMap, "key1", B1)}}

AttributeMaps ==
    {EmptyMap, MapInsert(EmptyMap, "reserve", B1),
     MapInsert(MapInsert(EmptyMap, "reserve", B1), "fee", B2)}

ProtocolStateEntities ==
    {[type |-> "ProtocolState", component_id |-> "pool", attributes |-> a,
      modify_tx |-> H256(HA)] : a \in AttributeMaps}

ProtocolStateDeltaEntities ==
    {[type |-> "ProtocolStateDelta", component_id |-> "pool", updated_attributes |-> a,
      deleted_attributes |-> d] :
        a \in AttributeMaps, d \in {{}, {"fee"}, {"tick"}}}

ComponentBalanceEntities ==
    {[type |-> "ComponentBalance", token |-> H160(A1), balance |-> b,
      balance_float |-> 1, modify_tx |-> H256(HA), component_id |-> "pool"] :
        b \in {U256_into(0), U256_into(256)}}

\* attribute rows as the store hands them back, of one name or of two
StoredAttributeRows ==
    {[protocol_component_id |-> 3, attribute_name |-> n, attribute_value |-> v,
      previous_value |-> Unset, modify_tx |-> 9, valid_from |-> t, valid_to |-> Unset] :
        n \in {"reserve", "fee"}, v \in {B1, B2}, t \in {1}}

StoredAttributeRowSeqs ==
    {<<a>> : a \in StoredAttributeRows}
        \cup {<<a, b>> : a \in StoredAttributeRows, b \in StoredAttributeRows}

ChangeTypes == {"ChangeType::Creation", "ChangeType::Update", "ChangeType::Deletion"}

\* the foreign keys the gateway passes
BlockTimes == 1..MaxTs

(***************************************************************************)
(* The mappings as steps: to_storage builds the rows of an entity, and      *)
(* from_storage is applied to rows with their context values.               *)
(***************************************************************************)
Built(x, ctx, rs) ==
    /\ entity = NoEntity
    /\ context = NoContext
    /\ entity' = x
    /\ context' = ctx
    /\ orm_rows' = rs
    /\ loaded' = NoResult
    /\ UNCHANGED <<store, pc, call>>

Read(of, r) ==
    /\ context.of = of
    /\ entity # NoEntity
    /\ loaded = NoResult
    /\ loaded' = r
    /\ UNCHANGED <<entity, context, orm_rows, store, pc, call>>

BlockToStorage(x) ==
    /\ x.type = "Block"
    /\ Built(x, [of |-> "Block", chain |-> x.chain, chain_id |-> get_chain_id(x.chain)],
             <<Block_to_storage(x, get_chain_id(x.chain))>>)

BlockFromStorage ==
    /\ orm_rows # <<>>
    /\ Read("Block", Block_from_storage(orm_rows[1], context.chain))

TransactionToStorage(x, block_id) ==
    /\ x.type = "Transaction"
    /\ Built(x, [of |-> "Transaction", block_id |-> block_id,
                 block_hash |-> H256_into(x.block_hash)],
             <<Transaction_to_storage(x, block_id)>>)

TransactionFromStorage ==
    /\ orm_rows # <<>>
    /\ Read("Transaction", Transaction_from_storage(orm_rows[1], context.block_hash))

ProtocolTypeToStorage(x) ==
    /\ x.type = "ProtocolType"
    /\ Built(x, [of |-> "ProtocolType"], <<ProtocolType_to_storage(x)>>)

ProtocolTypeFromStorage ==
    /\ orm_rows # <<>>
    /\ Read("ProtocolType", ProtocolType_from_storage(orm_rows[1]))

ComponentBalanceToStorage(x, token_id, modify_tx, protocol_component_id, block_ts) ==
    /\ x.type = "ComponentBalance"
    /\ Built(x, [of |-> "ComponentBalance", block_ts |-> block_ts],
             <<ComponentBalance_to_storage(x, token_id, modify_tx, protocol_component_id,
                                           block_ts)>>)

AccountToStorage(x, creation_ts, tx_id) ==
    /\ x.type = "Account"
    /\ Built(x, [of |-> "Account", chain |-> x.chain, chain_id |-> get_chain_id(x.chain),
                 balance_modify_tx |-> H256_into(x.balance_modify_tx),
                 code_modify_tx |-> H256_into(x.code_modify_tx),
                 creation_tx |-> IF IsSet(x.creation_tx)
                                 THEN Set(H256_into(Val(x.creation_tx))) ELSE Unset],
             <<Account_to_storage(x, get_chain_id(x.chain), creation_ts, tx_id)>>)

AccountFromStorage ==
    /\ orm_rows # <<>>
    /\ Read("Account",
            Account_from_storage(Contract_of(orm_rows[1]), context.chain,
                                 context.balance_modify_tx, context.code_modify_tx,
                                 context.creation_tx))

AccountUpdateFromStorage(ch, address, slots, balance, code, change) ==
    /\ entity = NoEntity
    /\ context = NoContext
    /\ context' = [of |-> "AccountUpdate", chain |-> ch, address |-> address,
                   slots |-> slots, balance |-> balance, code |-> code, change |-> change]
    /\ loaded' = AccountUpdate_from_storage(ch, address, slots, balance, code, change)
    /\ UNCHANGED <<entity, orm_rows, store, pc, call>>

TokenToStorage(x, contract_id) ==
    /\ x.type = "ERC20Token"
    /\ Built(x, [of |-> "ERC20Token", contract |-> ContractId(x.chain, H160_into(x.address))],
             <<ERC20Token_to_storage(x, contract_id)>>)

TokenFromStorage ==
    /\ orm_rows # <<>>
    /\ Read("ERC20Token", ERC20Token_from_storage(orm_rows[1], context.contract))

\* the row, had to_storage returned one
ResultRow(r) == IF r.kind = "Ok" THEN <<r.value>> ELSE <<>>

AddressesOf(hs) == [i \in DOMAIN hs |-> H160_into(hs[i])]

ProtocolComponentToStorage(x, protocol_type_id, creation_tx) ==
    /\ x.type = "ProtocolComponent"
    /\ Built(x, [of |-> "ProtocolComponent", tokens |-> AddressesOf(x.tokens),
                 contract_ids |-> AddressesOf(x.contract_ids), chain |-> x.chain,
                 protocol_system |-> x.protocol_system, transaction_hash |-> x.creation_tx,
                 protocol_type_id |-> protocol_type_id],
             ResultRow(ProtocolComponent_to_storage(x, get_chain_id(x.chain), 2,
                                                    protocol_type_id, creation_tx,
                                                    x.created_at)))

ProtocolComponentFromStorage ==
    /\ orm_rows # <<>>
    /\ Read("ProtocolComponent",
            ProtocolComponent_from_storage(orm_rows[1], context.tokens, context.contract_ids,
                                           context.chain, context.protocol_system,
                                           context.transaction_hash))

ProtocolStateToStorage(x, protocol_component_id, tx_id, block_ts, order) ==
    /\ x.type = "ProtocolState"
    /\ Built(x, [of |-> "ProtocolState", component_id |-> x.component_id,
                 protocol_component_id |-> protocol_component_id,
                 tx_hash |-> H256_into(x.modify_tx), block_ts |-> block_ts],
             ProtocolState_to_storage(x, protocol_component_id, tx_id, block_ts, order))

StoredRows(rs) == [i \in DOMAIN rs |-> ProtocolState_of(rs[i])]

ProtocolStateFromStorage ==
    /\ entity.type = "ProtocolState"
    /\ Read("ProtocolState",
            ProtocolState_from_storage(StoredRows(orm_rows), context.component_id,
                                       context.tx_hash))

\* from_storage applied to attribute rows read from the store
ProtocolStateFromStoredRows(vals, component_id, tx_hash) ==
    /\ entity = NoEntity
    /\ context = NoContext
    /\ context' = [of |-> "StoredProtocolState", component_id |-> component_id,
                   tx_hash |-> tx_hash]
    /\ orm_rows' = vals
    /\ loaded' = ProtocolState_from_storage(vals, component_id, tx_hash)
    /\ UNCHANGED <<entity, store, pc, call>>

ProtocolStateDeltaToStorage(x, protocol_component_id, tx_id, block_ts, order) ==
    /\ x.type = "ProtocolStateDelta"
    /\ Built(x, [of |-> "ProtocolStateDelta", component_id |-> x.component_id,
                 protocol_component_id |-> protocol_component_id, tx_id |-> tx_id,
                 deleted_attributes |-> CHOOSE o \in Orders(x.deleted_attributes) : TRUE,
                 block_ts |-> block_ts],
             ProtocolStateDelta_to_storage(x, protocol_component_id, tx_id, block_ts, order))

ProtocolStateDeltaFromStorage ==
    /\ entity.type = "ProtocolStateDelta"
    /\ Read("ProtocolStateDelta",
            ProtocolStateDelta_from_storage(StoredRows(orm_rows), context.component_id,
                                            context.deleted_attributes))

\* the entity, its rows and what was read are dropped
Forget ==
    /\ context # NoContext
    /\ entity' = NoEntity
    /\ context' = NoContext
    /\ orm_rows' = <<>>
    /\ loaded' = NoResult
    /\ UNCHANGED <<store, pc, call>>

NextMapping ==
    \/ \E x \in BlockEntities : BlockToStorage(x)
    \/ BlockFromStorage
    \/ \E x \in TransactionEntities : TransactionToStorage(x, 5)
    \/ TransactionFromStorage
    \/ \E x \in ProtocolTypeEntities : ProtocolTypeToStorage(x)
    \/ ProtocolTypeFromStorage
    \/ \E x \in ComponentBalanceEntities, block_ts \in BlockTimes :
          ComponentBalanceToStorage(x, 4, 9, 3, block_ts)
    \/ \E x \in AccountEntities :
          AccountToStorage(x, 1, IF IsSet(x.creation_tx) THEN Set(9) ELSE Unset)
    \/ AccountFromStorage
    \/ \E slots \in {Unset, Set(EmptyMap), Set(MapInsert(EmptyMap, K1, V256))},
          balance \in {Unset, Set(U256_into(0)), Set(V256)},
          code \in {Unset, Set(NoBytes), Set(B2)}, change \in ChangeTypes :
          AccountUpdateFromStorage("ethereum", A1, slots, balance, code, change)
    \/ \E x \in TokenEntities : TokenToStorage(x, 22)
    \/ TokenFromStorage
    \/ \E x \in ProtocolComponentEntities : ProtocolComponentToStorage(x, 42, 1)
    \/ ProtocolComponentFromStorage
    \/ \E x \in ProtocolStateEntities, block_ts \in BlockTimes :
          \E order \in Orders(DOMAIN x.attributes) :
              ProtocolStateToStorage(x, 3, 9, block_ts, order)
    \/ ProtocolStateFromStorage
    \/ \E vals \in StoredAttributeRowSeqs :
          ProtocolStateFromStoredRows(vals, "pool", HA)
    \/ \E x \in ProtocolStateDeltaEntities, block_ts \in BlockTimes :
          \E order \in Orders(DOMAIN x.updated_attributes) :
              ProtocolStateDeltaToStorage(x, 3, 9, block_ts, order)
    \/ ProtocolStateDeltaFromStorage
    \/ Forget

SpecMapping == Init /\ [][NextMapping]_vars

(***************************************************************************)
(* What the claims speak of, read off the tables and the returned value.    *)
(***************************************************************************)
Done == pc = "done"

ReturnedOk == Done /\ result.kind = "Ok"

Resolved == Done /\ IsSet(start_version_ts) /\ IsSet(target_version_ts)

Forward == Val(start_version_ts) <= Val(target_version_ts)

Lo == IF Forward THEN Val(start_version_ts) ELSE Val(target_version_ts)

Hi == IF Forward THEN Val(target_version_ts) ELSE Val(start_version_ts)

\* the contracts of the chain asked for
ChainContracts == {c \in contract : c.chain_id = get_chain_id(chain)}

\* the change rows of contract c and slot k with lo < valid_from <= hi
Changes(c, k, lo, hi) ==
    {r \in contract_storage :
        r.contract_id = c.id /\ r.slot = k /\ lo < r.valid_from /\ r.valid_from <= hi}

\* the (contract, slot) of the chain with at least one change in (lo, hi]
Touched(lo, hi) ==
    {g \in ChainContracts \X SlotKeys : Changes(g[1], g[2], lo, hi) # {}}

Greatest(rows) == CHOOSE r \in rows : \A o \in rows : ~RowBefore(r, o)

Smallest(rows) == CHOOSE r \in rows : \A o \in rows : ~RowBefore(o, r)

\* a stored value as a number: an absent value is zero
U256OrZero(v) == IF v = NULL THEN 0 ELSE from_big_endian(v)

\* the (address, slot) that have an entry in a returned map
EntriesOf(m) == {e \in (DOMAIN m) \X UNION {DOMAIN m[b] : b \in DOMAIN m} : e[2] \in DOMAIN m[e[1]]}

HasEntry(m, a, k) == a \in DOMAIN m /\ k \in DOMAIN m[a]

\* the row the call selects for a (contract, slot) with changes in (Lo, Hi]
Selected(g) ==
    IF Forward THEN Greatest(Changes(g[1], g[2], Lo, Hi))
    ELSE Smallest(Changes(g[1], g[2], Lo, Hi))

\* the column the call reads of it
SelectedValue(g) == IF Forward THEN Selected(g).value ELSE Selected(g).previous_value

\* the map of exactly one entry per touched (contract, slot), its value the selected one
NetMap(m) ==
    /\ \A g \in Touched(Lo, Hi) :
          /\ HasEntry(m, H160_from_slice(g[1].address), from_big_endian(g[2]))
          /\ m[H160_from_slice(g[1].address)][from_big_endian(g[2])]
                = U256OrZero(SelectedValue(g))
    /\ \A e \in EntriesOf(m) :
          \E g \in Touched(Lo, Hi) :
              e = <<H160_from_slice(g[1].address), from_big_endian(g[2])>>
    /\ Cardinality(EntriesOf(m)) = Cardinality(Touched(Lo, Hi))

(***************************************************************************)
(* C1  Forward delta: a call that resolves t_s <= t_t and returns a map     *)
(* returns, for every (contract, slot) of the chain with a change row in    *)
(* (t_s, t_t], exactly one entry, whose value is the value column of the    *)
(* row with the greatest (valid_from, ordinal) among them, and no entry for *)
(* a (contract, slot) without such a row.                                   *)
(***************************************************************************)
C1_ForwardDelta == (ReturnedOk /\ Forward) => NetMap(result.value)

\* a slot changed twice in the interval, to different values, collapsed to one entry
C1_Witness ==
    /\ ReturnedOk
    /\ Forward
    /\ \E g \in Touched(Lo, Hi) :
          \E r \in Changes(g[1], g[2], Lo, Hi) :
              /\ r # Selected(g)
              /\ U256OrZero(r.value) # U256OrZero(Selected(g).value)
              /\ HasEntry(result.value, H160_from_slice(g[1].address), from_big_endian(g[2]))

(***************************************************************************)
(* C2  Backward delta: a call that resolves t_s > t_t and returns a map     *)
(* returns, for every (contract, slot) of the chain with a change row in    *)
(* (t_t, t_s], exactly one entry, whose value is the previous_value column  *)
(* of the row with the smallest (valid_from, ordinal) among them (zero if   *)
(* it is null), and no entry for a (contract, slot) without such a row.     *)
(***************************************************************************)
C2_BackwardDelta == (ReturnedOk /\ ~Forward) => NetMap(result.value)

\* a slot changed twice in the interval: the entry is what preceded the first change
C2_Witness ==
    /\ ReturnedOk
    /\ ~Forward
    /\ \E g \in Touched(Lo, Hi) :
          \E r \in Changes(g[1], g[2], Lo, Hi) :
              /\ r # Selected(g)
              /\ U256OrZero(r.previous_value) # U256OrZero(Selected(g).previous_value)
              /\ HasEntry(result.value, H160_from_slice(g[1].address), from_big_endian(g[2]))

(***************************************************************************)
(* C3  Identity: a call whose start and target are the same version, and    *)
(* that returns a map, returns the empty map.                               *)
(***************************************************************************)
C3_Identity == (ReturnedOk /\ start_version = target_version) => result.value = EmptyMap

(***************************************************************************)
(* C4  Inverse composition.  Every row's previous_value is the value of the *)
(* row before it in the slot's history (null if none).  For A <= B: the     *)
(* state as of A, overlaid with the forward delta from A to B and then with *)
(* the backward delta from B to A, holds for every slot touched in (A, B]   *)
(* the value the slot had as of A (zero if it was unset).                   *)
(***************************************************************************)
\* each row's previous_value is the value of the row that precedes it
Chained ==
    \A r \in contract_storage :
        LET before == {o \in SlotRows(r.contract_id, r.slot) : RowBefore(o, r)}
        IN  r.previous_value = IF before = {} THEN NULL ELSE Greatest(before).value

\* the value of (contract, slot) as of timestamp a: zero if it was not set by then
ValueAsOf(g, a) ==
    LET rows == {r \in SlotRows(g[1].id, g[2]) : r.valid_from <= a}
    IN  IF rows = {} THEN 0 ELSE U256OrZero(Greatest(rows).value)

\* m[a][k] if the map has the entry, else what was there
Overlay(m, a, k, under) == IF HasEntry(m, a, k) THEN m[a][k] ELSE under

\* the forward delta from timestamp a to timestamp b
ForwardDelta(a, b) == get_slots_delta(chain, Timestamp(a), Timestamp(b), 0, 0, "none").result

C4_InverseComposition ==
    (ReturnedOk /\ ~Forward /\ Chained /\ ForwardDelta(Lo, Hi).kind = "Ok") =>
        \A g \in Touched(Lo, Hi) :
            LET a == H160_from_slice(g[1].address)
                k == from_big_endian(g[2])
            IN  /\ HasEntry(ForwardDelta(Lo, Hi).value, a, k)
                /\ Overlay(result.value, a, k,
                       Overlay(ForwardDelta(Lo, Hi).value, a, k, ValueAsOf(g, Lo)))
                     = ValueAsOf(g, Lo)

\* a slot that was set as of A and is changed in (A, B] to another value
C4_Witness ==
    /\ ReturnedOk
    /\ ~Forward
    /\ Chained
    /\ ForwardDelta(Lo, Hi).kind = "Ok"
    /\ \E g \in Touched(Lo, Hi) :
          /\ ValueAsOf(g, Lo) # 0
          /\ ForwardDelta(Lo, Hi).value[H160_from_slice(g[1].address)][from_big_endian(g[2])]
                # ValueAsOf(g, Lo)

(***************************************************************************)
(* C5  Half-open range.  With lo and hi the smaller and the greater of the  *)
(* resolved timestamps, in both directions: a (contract, slot) whose only   *)
(* change rows in [lo, hi] are at lo has no entry, and, when lo < hi, a     *)
(* (contract, slot) of the chain with a change row at hi has an entry (in a *)
(* forward call, the value of its last row at hi).  When lo = hi the range  *)
(* is empty and a row at hi has no entry.                                   *)
(***************************************************************************)
WellFormedKeys == {k \in SlotKeys : ByteLen(k) = U256Len}

\* the (contract, slot) of the chain with a change row at timestamp t
ChangedAt(t) ==
    {g \in ChainContracts \X WellFormedKeys :
        \E r \in SlotRows(g[1].id, g[2]) : r.valid_from = t}

RowAtLoLeftOut ==
    \A g \in ChangedAt(Lo) :
        Changes(g[1], g[2], Lo, Hi) = {} =>
            ~HasEntry(result.value, H160_from_slice(g[1].address), from_big_endian(g[2]))

RowAtHiScanned ==
    \A g \in ChangedAt(Hi) :
        LET a == H160_from_slice(g[1].address)
            k == from_big_endian(g[2])
            at_hi == {r \in SlotRows(g[1].id, g[2]) : r.valid_from = Hi}
        IN  /\ HasEntry(result.value, a, k)
            /\ Forward => result.value[a][k] = U256OrZero(Greatest(at_hi).value)

C5_HalfOpenRange ==
    ReturnedOk =>
        /\ RowAtLoLeftOut
        /\ Lo < Hi => RowAtHiScanned
        /\ Lo = Hi => result.value = EmptyMap

\* the claim as stated: a row at hi belongs to the range whatever lo is
C5_AsStated == ReturnedOk => (RowAtLoLeftOut /\ RowAtHiScanned)

\* a slot written only at lo is absent and a slot written at hi is present
C5_Witness ==
    /\ ReturnedOk
    /\ Lo < Hi
    /\ \E g \in ChangedAt(Lo) : Changes(g[1], g[2], Lo, Hi) = {}
    /\ \E g \in ChangedAt(Hi) :
          HasEntry(result.value, H160_from_slice(g[1].address), from_big_endian(g[2]))

(***************************************************************************)
(* C6  Fail-fast slot decoding: when the store answers every call and a row *)
(* selected for the result has a slot key that is not 32 bytes long, or a   *)
(* selected column that is not null and not 32 bytes long, the call returns *)
(* DecodeError and no map, whatever well-formed rows come before or after.  *)
(***************************************************************************)
Malformed(g) ==
    \/ ByteLen(g[2]) # U256Len
    \/ SelectedValue(g) # NULL /\ ByteLen(SelectedValue(g)) # U256Len

C6_FailFastDecoding ==
    (Resolved /\ io_error = "none" /\ \E g \in Touched(Lo, Hi) : Malformed(g)) =>
        /\ result.kind = "DecodeError"
        /\ "value" \notin DOMAIN result

\* a malformed selected row together with a well-formed one
C6_Witness ==
    /\ Resolved
    /\ io_error = "none"
    /\ result.kind = "DecodeError"
    /\ \E g \in Touched(Lo, Hi) : Malformed(g)
    /\ \E g \in Touched(Lo, Hi) : ~Malformed(g) /\ ByteLen(g[1].address) = AddressLen

(***************************************************************************)
(* C7  Unknown contract id: when the store answers every call and holds a   *)
(* change row in the queried range whose contract_id has no row in table    *)
(* contract, the call returns DecodeError.                                  *)
(***************************************************************************)
OrphanInRange ==
    \E r \in contract_storage :
        /\ Lo < r.valid_from
        /\ r.valid_from <= Hi
        /\ \A c \in contract : c.id # r.contract_id

C7_UnknownContractId ==
    (Resolved /\ io_error = "none" /\ OrphanInRange) => result.kind = "DecodeError"

(***************************************************************************)
(* C8  Store failures are passed through: when a store call of the call     *)
(* fails (a version lookup, the range query, the address lookup), the call  *)
(* returns StoreFailure; it does not panic and returns no map.              *)
(***************************************************************************)
C8_StoreFailurePassedThrough == (Done /\ io_error # "none") => result.kind = "StoreFailure"

(***************************************************************************)
(* C9  Block-version resolution: when the store answers every call, a Block *)
(* version resolves to the timestamp of the stored block with that hash or  *)
(* (chain, number) and a Timestamp version to itself, so the call returns   *)
(* what it returns for the two timestamps; when start or target names a     *)
(* block that is not stored, the call returns NotFound and runs no range    *)
(* query.                                                                   *)
(***************************************************************************)
StoredBlocks(v) ==
    IF v.tag = "Hash" THEN {b \in block : b.hash = v.hash}
    ELSE {b \in block : b.chain = v.chain /\ b.number = v.no}

MissingBlock(v) == IsBlock(v) /\ StoredBlocks(v) = {}

ResolvesTo(v, ts) ==
    /\ IsSet(ts)
    /\ v.tag = "Timestamp" => Val(ts) = v.ts
    /\ IsBlock(v) => \E b \in StoredBlocks(v) : Val(ts) = b.ts

C9_BlockVersionResolution ==
    (Done /\ io_error = "none") =>
        /\ (MissingBlock(start_version) \/ MissingBlock(target_version)) =>
              /\ result.kind = "NotFound"
              /\ ~IsSet(changed_values)
        /\ ~MissingBlock(start_version) => ResolvesTo(start_version, start_version_ts)
        /\ (~MissingBlock(start_version) /\ ~MissingBlock(target_version)) =>
              /\ ResolvesTo(target_version, target_version_ts)
              /\ result = get_slots_delta(chain, Timestamp(Val(start_version_ts)),
                              Timestamp(Val(target_version_ts)), 0, 0, "none").result

\* a delta from a stored block, given by hash or by number, that is not empty
C9_Witness ==
    /\ ReturnedOk
    /\ IsBlock(start_version)
    /\ result.value # EmptyMap

(***************************************************************************)
(* C10  Address length check: when the store answers every call and a       *)
(* contract with a change row in the result has a stored address that is    *)
(* not 20 bytes long, the call returns DecodeError and no map; when the     *)
(* call returns a map, every key of the outer map is the 20-byte stored     *)
(* address of a contract of the chain with a change in the queried range.   *)
(***************************************************************************)
C10_AddressLength ==
    (Resolved /\ io_error = "none") =>
        /\ (\E g \in Touched(Lo, Hi) : ByteLen(g[1].address) # AddressLen) =>
              /\ result.kind = "DecodeError"
              /\ "value" \notin DOMAIN result
        /\ result.kind = "Ok" =>
              \A a \in DOMAIN result.value :
                  /\ Len(a.h160) = AddressLen
                  /\ \E g \in Touched(Lo, Hi) :
                        /\ ByteLen(g[1].address) = AddressLen
                        /\ a.h160 = Expand(g[1].address)

\* a contract with a 19-byte address has a change in the range
C10_Witness ==
    /\ Resolved
    /\ io_error = "none"
    /\ result.kind = "DecodeError"
    /\ \E g \in Touched(Lo, Hi) : ByteLen(g[1].address) # AddressLen /\ ~Malformed(g)

(***************************************************************************)
(* C11  Round trip: for Block, Transaction, Account, ERC20Token,            *)
(* ProtocolType, ProtocolComponent, ProtocolState and ProtocolStateDelta,   *)
(* from_storage applied to the rows to_storage built of an entity, with the *)
(* same context values, returns the entity, equal on every semantic field.  *)
(***************************************************************************)
RoundTripTypes ==
    {"Block", "Transaction", "Account", "ERC20Token", "ProtocolType", "ProtocolComponent",
     "ProtocolState", "ProtocolStateDelta"}

\* the fields that carry meaning: all of them, but a component's change marker
Semantic(e) ==
    IF e.type = "ProtocolComponent" THEN [e EXCEPT !.change = ChangeType_default] ELSE e

C11_RoundTrip ==
    (entity.type \in RoundTripTypes /\ loaded # NoResult) =>
        /\ loaded.kind = "Ok"
        /\ Semantic(loaded.value) = Semantic(entity)

(***************************************************************************)
(* C12  One-to-many decomposition: ProtocolState.to_storage returns one row *)
(* per attribute of the state, with the attribute's name and value and the  *)
(* component id given; ProtocolState.from_storage returns a state whose     *)
(* attribute map holds, for every attribute name among the rows, the value  *)
(* of the last row of that name, which are exactly the (name, value) pairs  *)
(* of the rows when no two rows share a name.                               *)
(***************************************************************************)
\* the attribute rows from_storage was applied to
AttributeRows == IF context.of = "ProtocolState" THEN StoredRows(orm_rows) ELSE orm_rows

PairsOf(vals) == {<<vals[i].attribute_name, vals[i].attribute_value>> : i \in DOMAIN vals}

\* the pair of the last row of each name
LastPairsOf(vals) ==
    {<<vals[i].attribute_name, vals[i].attribute_value>> :
        i \in {i \in DOMAIN vals :
                 \A j \in DOMAIN vals :
                     vals[j].attribute_name = vals[i].attribute_name => j <= i}}

DistinctNames(vals) ==
    \A i, j \in DOMAIN vals : vals[i].attribute_name = vals[j].attribute_name => i = j

MapPairs(m) == {<<k, m[k]>> : k \in DOMAIN m}

OneRowPerAttribute ==
    entity.type = "ProtocolState" =>
        /\ Len(orm_rows) = Cardinality(DOMAIN entity.attributes)
        /\ \A n \in DOMAIN entity.attributes :
              \E i \in DOMAIN orm_rows :
                  /\ orm_rows[i].attribute_name = Set(n)
                  /\ orm_rows[i].attribute_value = Set(entity.attributes[n])
                  /\ orm_rows[i].protocol_component_id = context.protocol_component_id

FoldedState == context.of \in {"ProtocolState", "StoredProtocolState"} /\ loaded.kind = "Ok"

C12_OneToManyDecomposition ==
    /\ OneRowPerAttribute
    /\ FoldedState =>
          /\ MapPairs(loaded.value.attributes) = LastPairsOf(AttributeRows)
          /\ DistinctNames(AttributeRows) =>
                MapPairs(loaded.value.attributes) = PairsOf(AttributeRows)

\* the claim as stated: the map holds the pairs of the rows, whatever the rows
C12_AsStated ==
    /\ OneRowPerAttribute
    /\ FoldedState => MapPairs(loaded.value.attributes) = PairsOf(AttributeRows)

\* a state of two attributes, taken apart into two rows and folded back
C12_Witness ==
    /\ entity.type = "ProtocolState"
    /\ Cardinality(DOMAIN entity.attributes) = 2
    /\ Len(orm_rows) = 2
    /\ loaded.kind = "Ok"

(***************************************************************************)
(* C13  Enum round trip: the mappings of token quality, financial type and  *)
(* implementation type between the domain enum and the row's enum are       *)
(* bijections: to_storage then from_storage gives back every variant, and   *)
(* no two variants have the same counterpart, in either direction.          *)
(***************************************************************************)
Bijection(D, R, To(_), From(_)) ==
    /\ \A v \in D : To(v) \in R /\ From(To(v)) = v
    /\ \A r \in R : From(r) \in D /\ To(From(r)) = r
    /\ \A a, b \in D : a # b => To(a) # To(b)
    /\ \A a, b \in R : a # b => From(a) # From(b)

C13_EnumRoundTrip ==
    /\ Bijection(TokenQualities, OrmTokenQualities, quality_to_storage,
                 quality_from_storage)
    /\ Bijection(FinancialTypes, OrmFinancialTypes, financial_type_to_storage,
                 financial_type_from_storage)
    /\ Bijection(ImplementationTypes, OrmImplementationTypes, implementation_to_storage,
                 implementation_from_storage)
    /\ (entity.type = "ERC20Token" /\ loaded.kind = "Ok") =>
          loaded.value.quality = entity.quality
    /\ (entity.type = "ProtocolType" /\ loaded.kind = "Ok") =>
          /\ loaded.value.financial_type = entity.financial_type
          /\ loaded.value.implementation = entity.implementation

\* a token of quality Tax, stored and read back
C13_Witness ==
    /\ entity.type = "ERC20Token"
    /\ entity.quality = "TokenQuality::Tax"
    /\ orm_rows[1].quality = "orm::TokenQuality::Tax"
    /\ loaded.kind = "Ok"

(***************************************************************************)
(* C14  Partial-update representation: the update AccountUpdate.from_storage*)
(* returns for an absent balance, code or slots differs from the one it     *)
(* returns for a zero balance, an empty code or an empty slot set;          *)
(* dirty_balance and dirty_code are absent exactly when the input was; the  *)
(* change kind is the one passed in.                                        *)
(***************************************************************************)
C14_PartialUpdate ==
    (context.of = "AccountUpdate" /\ loaded.kind = "Ok") =>
        /\ dirty_balance(loaded.value) = Unset <=> context.balance = Unset
        /\ dirty_code(loaded.value) = Unset <=> context.code = Unset
        /\ loaded.value.change = context.change
        /\ context.balance = Unset =>
              loaded # AccountUpdate_from_storage(context.chain, context.address,
                            context.slots, Set(U256_into(0)), context.code, context.change)
        /\ context.code = Unset =>
              loaded # AccountUpdate_from_storage(context.chain, context.address,
                            context.slots, context.balance, Set(NoBytes), context.change)
        /\ context.slots = Unset =>
              loaded # AccountUpdate_from_storage(context.chain, context.address,
                            Set(EmptyMap), context.balance, context.code, context.change)

(***************************************************************************)
(* C16  Every row to_storage builds of a ProtocolState, a                   *)
(* ProtocolStateDelta or a ComponentBalance is open and newly effective:    *)
(* its valid_from is the block timestamp passed in and its valid_to is      *)
(* null; and building the rows leaves every table as it was.                *)
(***************************************************************************)
VersionedTypes == {"ProtocolState", "ProtocolStateDelta", "ComponentBalance"}

\* a step in which to_storage builds the rows of a versioned entity
BuildsVersionedRows == entity = NoEntity /\ entity'.type \in VersionedTypes

C16_OpenRows ==
    [][BuildsVersionedRows =>
          /\ \A i \in DOMAIN orm_rows' :
                /\ orm_rows'[i].valid_from = context'.block_ts
                /\ orm_rows'[i].valid_to = Unset
          /\ UNCHANGED store]_vars

\* a balance row and two attribute rows built at the latest block time
C16_Witness ==
    /\ entity.type \in VersionedTypes
    /\ context.block_ts = MaxTs
    /\ orm_rows # <<>>
    /\ \A i \in DOMAIN orm_rows : orm_rows[i].valid_from = MaxTs

(***************************************************************************)
(* C17  ProtocolStateDelta.to_storage ignores deleted_attributes: it        *)
(* returns one row per entry of updated_attributes and no row for a name    *)
(* that is only in deleted_attributes, so deltas of equal                   *)
(* updated_attributes and different deleted_attributes give the same rows.  *)
(***************************************************************************)
AttributeNames == {"reserve", "fee", "tick"}

C17_DeletedAttributesIgnored ==
    entity.type = "ProtocolStateDelta" =>
        /\ Len(orm_rows) = Cardinality(DOMAIN entity.updated_attributes)
        /\ \A n \in DOMAIN entity.updated_attributes :
              \E i \in DOMAIN orm_rows :
                  /\ orm_rows[i].attribute_name = Set(n)
                  /\ orm_rows[i].attribute_value = Set(entity.updated_attributes[n])
        /\ \A n \in entity.deleted_attributes \ DOMAIN entity.updated_attributes :
              \A i \in DOMAIN orm_rows : orm_rows[i].attribute_name # Set(n)
        /\ \A d \in SUBSET AttributeNames :
              \A order \in Orders(DOMAIN entity.updated_attributes) :
                  SeqRange(ProtocolStateDelta_to_storage(
                               [entity EXCEPT !.deleted_attributes = d],
                               context.protocol_component_id, context.tx_id,
                               context.block_ts, order))
                      = SeqRange(orm_rows)

\* a delta that updates an attribute and deletes another one
C17_Witness ==
    /\ entity.type = "ProtocolStateDelta"
    /\ entity.deleted_attributes = {"tick"}
    /\ DOMAIN entity.updated_attributes # {}
    /\ orm_rows # <<>>

(***************************************************************************)
(* C15  Isolation from later writes: the steps of a call leave the store as *)
(* it is; a write that lands while the call runs and whose valid_from is    *)
(* greater than both resolved timestamps does not change what the call      *)
(* returns; a write that changes it has its valid_from in the resolved      *)
(* range and lands after the versions are resolved and before the range     *)
(* query runs.                                                              *)
(***************************************************************************)
\* the rows the range query of the call returns when it runs now
RangeQuery ==
    query_changed_values(get_chain_id(chain), Val(start_version_ts), Val(target_version_ts))

\* what the call returns once the range query has returned cvs
ResultFrom(cvs) ==
    with_changed_values(Val(start_version_ts), Val(target_version_ts), cvs, "none").result

\* what the call returns if no write lands before it ends (the range query is run once)
PendingResult ==
    CASE pc = "resolved" -> CHOOSE res \in {ResultFrom(cvs) : cvs \in {RangeQuery}} : TRUE
      [] pc = "queried" -> ResultFrom(Val(changed_values))
      [] OTHER -> result

\* the change rows a step appends
NewRows == contract_storage' \ contract_storage

\* a step appends a row whose valid_from is in the resolved range
WritesInRange == \E r \in NewRows : Lo < r.valid_from /\ r.valid_from <= Hi

C15_IsolationFromLaterWrites ==
    [][/\ pc' # pc => UNCHANGED store
       /\ (pc \in {"resolved", "queried"} /\ pc' = pc /\ (pc = "queried" \/ ~WritesInRange))
          => PendingResult' = PendingResult]_vars

\* a slot changed twice while the call ran: in the range after the range query had run,
\* and then later than the range; the call returns the map without the slot
C15_Witness ==
    /\ ReturnedOk
    /\ IsSet(changed_values)
    /\ \E r1 \in contract_storage, r2 \in contract_storage :
          /\ SameGroup(r1, r2)
          /\ r1 \in joined(get_chain_id(chain))
          /\ Lo < r1.valid_from
          /\ r1.valid_from <= Hi
          /\ r2.valid_from > Hi
          /\ \A i \in DOMAIN Val(changed_values) : Val(changed_values)[i][2] # r1.slot

(***************************************************************************)
(* C18  Direction symmetry of the key set: when the call between two        *)
(* resolved timestamps and the call in the other direction both return a    *)
(* map, the two maps have the same (address, slot) keys.                    *)
(***************************************************************************)
\* what the call from the resolved target back to the resolved start returns
Reverse ==
    get_slots_delta(chain, Timestamp(Val(target_version_ts)),
                    Timestamp(Val(start_version_ts)), 0, 0, "none").result

C18_KeySetSymmetry ==
    (ReturnedOk /\ Reverse.kind = "Ok") =>
        EntriesOf(result.value) = EntriesOf(Reverse.value)

\* the two directions return the same keys with different values
C18_Witness ==
    /\ ReturnedOk
    /\ Reverse.kind = "Ok"
    /\ result.value # EmptyMap
    /\ result.value # Reverse.value

(***************************************************************************)
(* C19  Deltas compose: for timestamps A <= B <= C whose deltas are maps,   *)
(* the forward delta from A to C is the forward delta from A to B overlaid  *)
(* with the one from B to C, and the backward delta from C to A is the      *)
(* backward delta from C to B overlaid with the one from B to A.            *)
(***************************************************************************)
Delta(a, b) == get_slots_delta(chain, Timestamp(a), Timestamp(b), 0, 0, "none").result

MergeSlots(under, over) ==
    [k \in DOMAIN under \cup DOMAIN over |-> IF k \in DOMAIN over THEN over[k] ELSE under[k]]

\* the map under with the entries of over put on top of it
OverlayMaps(under, over) ==
    [a \in DOMAIN under \cup DOMAIN over |->
        IF a \in DOMAIN under /\ a \in DOMAIN over THEN MergeSlots(under[a], over[a])
        ELSE IF a \in DOMAIN over THEN over[a]
        ELSE under[a]]

\* the two deltas the call's interval splits into at b, in the call's direction
FirstPart(b) == IF Forward THEN Delta(Lo, b) ELSE Delta(Hi, b)

SecondPart(b) == IF Forward THEN Delta(b, Hi) ELSE Delta(b, Lo)

C19_DeltasCompose ==
    (Resolved /\ io_error = "none") =>
        \A b \in Lo..Hi :
            (FirstPart(b).kind = "Ok" /\ SecondPart(b).kind = "Ok") =>
                result = Ok(OverlayMaps(FirstPart(b).value, SecondPart(b).value))

\* a slot changed in (A, B] and again in (B, C]
C19_Witness ==
    /\ ReturnedOk
    /\ \E b \in Lo..Hi :
          /\ FirstPart(b).kind = "Ok"
          /\ SecondPart(b).kind = "Ok"
          /\ EntriesOf(FirstPart(b).value) \cap EntriesOf(SecondPart(b).value) # {}
          /\ FirstPart(b).value # SecondPart(b).value

(***************************************************************************)
(* C20  Chain scoping: every contract of a returned map is a contract of    *)
(* the chain asked for, the map is decoded from what the store calls of the *)
(* call returned, and a slot change written for a contract of another chain *)
(* changes what no store call of a call for the chain returns: not the      *)
(* resolution of a version (a block number of another chain included), not  *)
(* the range query between any two timestamps, not the address lookup.      *)
(***************************************************************************)
\* the rows a step appends are of contracts of chains other than ch
WritesOtherChain(ch) ==
    /\ NewRows # {}
    /\ \A r \in NewRows :
          \E c \in contract : c.id = r.contract_id /\ c.chain_id # get_chain_id(ch)

OnlyContractsOfChain ==
    ReturnedOk =>
        \A a \in DOMAIN result.value :
            \E c \in ChainContracts :
                /\ a = H160_from_slice(c.address)
                /\ \E k \in SlotKeys : Changes(c, k, Lo, Hi) # {}

DecodedFromStoreCalls ==
    ReturnedOk =>
        result = with_contract_addresses(Val(start_version_ts), Val(target_version_ts),
                                         Val(changed_values),
                                         Ok(Val(contract_addresses))).result

SameStoreCalls(ch) ==
    /\ \A v \in Versions : version_to_ts(v, 0, FALSE)' = version_to_ts(v, 0, FALSE)
    /\ \A s_ts \in Ts, t_ts \in Ts :
          \A cvs \in {query_changed_values(get_chain_id(ch), s_ts, t_ts)} :
              /\ query_changed_values(get_chain_id(ch), s_ts, t_ts)' = cvs
              /\ lookup_contract_addresses(cvs)' = lookup_contract_addresses(cvs)

C20_ChainScoping ==
    /\ [](OnlyContractsOfChain /\ DecodedFromStoreCalls)
    /\ [][\A ch \in Chains : WritesOtherChain(ch) => SameStoreCalls(ch)]_vars

\* a call for starknet up to a block of ethereum, with a change of an ethereum contract
\* in its range
C20_Witness ==
    /\ ReturnedOk
    /\ chain = "starknet"
    /\ target_version = BlockNumber("ethereum", 7)
    /\ \E r \in contract_storage :
          /\ Lo < r.valid_from
          /\ r.valid_from <= Hi
          /\ \E c \in contract : c.id = r.contract_id /\ c.chain_id = get_chain_id("ethereum")

(***************************************************************************)
(* C21  Shape of a returned map: a (contract, slot) whose selected row has  *)
(* a null value column (forward) or a null previous_value column (backward) *)
(* has an entry with value zero, no address maps to an empty inner map, and *)
(* the number of (address, slot) entries is the number of (contract, slot)  *)
(* of the chain with a change in the resolved range.                        *)
(***************************************************************************)
C21_ResultShape ==
    ReturnedOk =>
        /\ \A g \in Touched(Lo, Hi) :
              SelectedValue(g) = NULL =>
                  /\ HasEntry(result.value, H160_from_slice(g[1].address),
                              from_big_endian(g[2]))
                  /\ result.value[H160_from_slice(g[1].address)][from_big_endian(g[2])] = 0
        /\ \A a \in DOMAIN result.value : DOMAIN result.value[a] # {}
        /\ Cardinality(EntriesOf(result.value)) = Cardinality(Touched(Lo, Hi))

\* two (contract, slot) changed in the range, the selected column null for one of them
\* and set for the other
C21_Witness ==
    /\ ReturnedOk
    /\ Cardinality(Touched(Lo, Hi)) = 2
    /\ \E g \in Touched(Lo, Hi) : SelectedValue(g) = NULL
    /\ \E g \in Touched(Lo, Hi) : SelectedValue(g) # NULL

====
